---- MODULE Spec2Model ----
(***************************************************************************)
(* DubeGrid CSV ingestion handler (lambda_ingest_csv.py, lambda_handler).  *)
(*                                                                         *)
(* One invocation extracts bucket and key from the first record of an S3   *)
(* notification event, URL-decodes the key, fetches the object, decodes it *)
(* as UTF-8, reads it with csv.DictReader and issues one put_item per row, *)
(* then prints the value of the loop variable.                             *)
(*                                                                         *)
(* Strings that the handler inspects character by character (object keys)  *)
(* are sequences of code points.  The CSV text is held as the sequence of  *)
(* cell lists that csv.reader yields, one per line (<<>> for a blank       *)
(* line), and whether csv.reader then raises csv.Error (a carriage return  *)
(* inside an unquoted field, a field over the size limit) instead of       *)
(* ending.  A Python value stored in a row mapping or an item is Str(s)    *)
(* or None.                                                                *)
(***************************************************************************)
EXTENDS Integers, Sequences, FiniteSets, TLC

VARIABLES
    event,    \* the notification event delivered to every invocation
    s3,       \* the bucket: the one stored object and the service's mood
    pc,       \* position of each invocation in lambda_handler
    bucket,   \* local `bucket` of each invocation
    key,      \* local `key` of each invocation
    content,  \* local `content`: the rows csv.reader yields from the text,
              \* and whether it raises csv.Error after them
    reader,   \* the DictReader: lines consumed so far
    loopVar,  \* local `i`: <<>> while unbound, <<n>> once bound to n
    row,      \* local `row`
    err,      \* the exception that ended the invocation, "" if none
    gets,     \* every get_object call, in issue order
    puts,     \* every put_item call, in issue order, with its outcome
    logs      \* what each invocation printed

vars == <<event, s3, pc, bucket, key, content, reader, loopVar, row, err,
          gets, puts, logs>>

(***************************************************************************)
(* Bounds of the explored inputs.                                          *)
(***************************************************************************)
MaxRows == 2
MaxCells == 4
MaxCols == 4
MaxKeyLen == 5

Invocations == {1, 2}

(***************************************************************************)
(* Characters.                                                             *)
(***************************************************************************)
Printable ==
    << " ", "!", "\"", "#", "$", "%", "&", "'", "(", ")", "*", "+", ",", "-",
       ".", "/", "0", "1", "2", "3", "4", "5", "6", "7", "8", "9", ":", ";",
       "<", "=", ">", "?", "@", "A", "B", "C", "D", "E", "F", "G", "H", "I",
       "J", "K", "L", "M", "N", "O", "P", "Q", "R", "S", "T", "U", "V", "W",
       "X", "Y", "Z", "[", "\\", "]", "^", "_", "grave", "a", "b", "c", "d", "e",
       "f", "g", "h", "i", "j", "k", "l", "m", "n", "o", "p", "q", "r", "s",
       "t", "u", "v", "w", "x", "y", "z", "{", "|", "}", "~" >>

\* ord(c) of a printable ASCII character.
Ord(c) == 31 + (CHOOSE k \in 1..Len(Printable) : Printable[k] = c)

\* The code points of a text given character by character.
Codes(s) == [k \in 1..Len(s) |-> Ord(s[k])]

(***************************************************************************)
(* urllib.parse.unquote_plus(key), with its defaults encoding='utf-8' and  *)
(* errors='replace'.                                                       *)
(***************************************************************************)
IsHex(c) == c \in 48..57 \/ c \in 65..70 \/ c \in 97..102

HexVal(c) == IF c \in 48..57 THEN c - 48
             ELSE IF c \in 65..70 THEN c - 55
             ELSE c - 87

\* string.replace('+', ' ')
ReplacePlus(s) == [k \in 1..Len(s) |-> IF s[k] = 43 THEN 32 ELSE s[k]]

\* unquote_to_bytes over the ASCII runs of s: "%" followed by two hex digits
\* becomes the byte they name, any other "%" stays.  A non-ASCII character of
\* s is not part of any run; it is carried as the negative of its code point.
RECURSIVE UnquoteToBytes(_, _)
UnquoteToBytes(s, k) ==
    IF k > Len(s) THEN <<>>
    ELSE IF s[k] = 37 /\ k + 2 <= Len(s) /\ IsHex(s[k+1]) /\ IsHex(s[k+2])
         THEN <<16 * HexVal(s[k+1]) + HexVal(s[k+2])>> \o UnquoteToBytes(s, k + 3)
         ELSE <<(IF s[k] < 128 THEN s[k] ELSE 0 - s[k])>> \o UnquoteToBytes(s, k + 1)

\* Continuation bytes a UTF-8 lead byte asks for (0: not a lead byte).
Utf8Need(c) == IF c \in 194..223 THEN 1
               ELSE IF c \in 224..239 THEN 2
               ELSE IF c \in 240..244 THEN 3
               ELSE 0

\* Is b the j-th byte after lead byte c of a well-formed sequence?
Utf8Cont(c, j, b) ==
    IF j > 1 THEN b \in 128..191
    ELSE IF c = 224 THEN b \in 160..191
    ELSE IF c = 237 THEN b \in 128..159
    ELSE IF c = 240 THEN b \in 144..191
    ELSE IF c = 244 THEN b \in 128..143
    ELSE b \in 128..191

\* How many of the bytes after position k continue the sequence led by b[k].
RECURSIVE Utf8Good(_, _, _)
Utf8Good(b, k, j) ==
    IF j > Utf8Need(b[k]) \/ k + j > Len(b) THEN j - 1
    ELSE IF Utf8Cont(b[k], j, b[k + j]) THEN Utf8Good(b, k, j + 1)
    ELSE j - 1

\* The code point of the well-formed sequence of n + 1 bytes at position k.
Utf8Point(b, k, n) ==
    IF n = 1 THEN (b[k] - 192) * 64 + (b[k+1] - 128)
    ELSE IF n = 2 THEN (b[k] - 224) * 4096 + (b[k+1] - 128) * 64 + (b[k+2] - 128)
    ELSE (b[k] - 240) * 262144 + (b[k+1] - 128) * 4096
         + (b[k+2] - 128) * 64 + (b[k+3] - 128)

\* bytes.decode('utf-8', 'replace'): every maximal ill-formed piece becomes
\* U+FFFD.
RECURSIVE Utf8Decode(_, _)
Utf8Decode(b, k) ==
    IF k > Len(b) THEN <<>>
    ELSE IF b[k] < 0 THEN <<0 - b[k]>> \o Utf8Decode(b, k + 1)
    ELSE IF b[k] < 128 THEN <<b[k]>> \o Utf8Decode(b, k + 1)
    ELSE LET n == Utf8Need(b[k])
             g == Utf8Good(b, k, 1)
         IN  IF n > 0 /\ g = n
             THEN <<Utf8Point(b, k, n)>> \o Utf8Decode(b, k + 1 + n)
             ELSE <<65533>> \o Utf8Decode(b, k + 1 + g)

\* unquote(string): a string without "%" is returned as it is.
Unquote(s) ==
    IF \A k \in 1..Len(s) : s[k] # 37 THEN s
    ELSE Utf8Decode(UnquoteToBytes(s, 1), 1)

\* unquote in place of unquote_plus: "+" is left as it is.
UnquoteKeepingPlus(s) == Unquote(s)

UnquotePlus(s) == Unquote(ReplacePlus(s))

(***************************************************************************)
(* Python values and csv.DictReader.                                       *)
(***************************************************************************)
None == <<"NoneType">>
Str(s) == <<"str", s>>

\* The keys the handler looks up in a row, in the order it looks them up.
Required == <<"asset_id", "timestamp", "value">>

Range(f) == {f[k] : k \in DOMAIN f}

\* DictReader.fieldnames: the first row of the underlying reader (None, which
\* is shown here as <<>>, when the reader has no row at all).
Fieldnames(lines) == IF lines = <<>> THEN <<>> ELSE lines[1]

\* The mapping DictReader.__next__ builds from one row of cells:
\* dict(zip(fieldnames, row)), then the cells beyond the header under the
\* restkey None (field `rest`; the key exists only when rest is not empty),
\* then the restval None for every header name beyond the row.  A name that
\* occurs twice keeps what its last occurrence was given.
DictRow(fieldnames, cells) ==
    [ fields |-> [ n \in Range(fieldnames) |->
                     LET last == CHOOSE k \in DOMAIN fieldnames :
                                   /\ fieldnames[k] = n
                                   /\ \A j \in DOMAIN fieldnames :
                                          fieldnames[j] = n => j <= k
                     IN  IF last <= Len(cells) THEN Str(cells[last]) ELSE None ],
      rest   |-> SubSeq(cells, Len(fieldnames) + 1, Len(cells)) ]

\* The row mapping before the loop has bound `row`.
NoRow == [fields |-> <<>>, rest |-> <<>>]

\* A reader that takes the row after the next one.
NextLineSkipping(lines, pos) ==
    IF \E j \in (pos + 2)..Len(lines) : lines[j] # <<>>
    THEN CHOOSE j \in (pos + 2)..Len(lines) :
            /\ lines[j] # <<>>
            /\ \A m \in (pos + 2)..(j - 1) : lines[m] = <<>>
    ELSE 0

\* The index of the first row after position pos that is not [] (DictReader
\* skips blank rows); 0 when the underlying reader is exhausted first.
NextLine(lines, pos) ==
    IF \E j \in (pos + 1)..Len(lines) : lines[j] # <<>>
    THEN CHOOSE j \in (pos + 1)..Len(lines) :
            /\ lines[j] # <<>>
            /\ \A m \in (pos + 1)..(j - 1) : lines[m] = <<>>
    ELSE 0

\* Where the data rows start: DictReader.__next__ reads the header first when
\* nothing has been read yet (line_num = 0).
AfterHeader(lines, pos) == IF pos = 0 /\ lines # <<>> THEN 1 ELSE pos

(***************************************************************************)
(* The handler's expressions.                                              *)
(***************************************************************************)
\* The rows shown by `if i <= 5: print(row)`.
PrintLimit == 5

\* A lookup that takes event['Records'][0]['s3']['object'].get('key').
EventErrorKeyOptional(ev) ==
    IF ~ev.hasRecords THEN "KeyError"
    ELSE IF ev.Records = <<>> THEN "IndexError"
    ELSE IF ~ev.Records[1].hasBucket THEN "KeyError"
    ELSE ""

\* Lines 7-8: event['Records'][0]['s3']['bucket']['name'], then
\* event['Records'][0]['s3']['object']['key'].  The exception raised, "" if
\* both lookups succeed.
EventError(ev) ==
    IF ~ev.hasRecords THEN "KeyError"
    ELSE IF ev.Records = <<>> THEN "IndexError"
    ELSE IF ~ev.Records[1].hasBucket THEN "KeyError"
    ELSE IF ~ev.Records[1].hasKey THEN "KeyError"
    ELSE ""

\* Lines 31-35: the first of row['asset_id'], row['timestamp'], row['value']
\* that raises KeyError; 0 if none does.
MissingKey(r) ==
    IF \E k \in DOMAIN Required : Required[k] \notin DOMAIN r.fields
    THEN CHOOSE k \in DOMAIN Required :
            /\ Required[k] \notin DOMAIN r.fields
            /\ \A j \in 1..(k - 1) : Required[j] \in DOMAIN r.fields
    ELSE 0

\* Lines 31-35: the Item argument of put_item.
ItemOf(r) ==
    [ asset_id  |-> r.fields["asset_id"],
      timestamp |-> r.fields["timestamp"],
      value     |-> r.fields["value"] ]

\* The calls of one invocation, in issue order.
PutsOf(i) == SelectSeq(puts, LAMBDA p : p.inv = i)
GetsOf(i) == SelectSeq(gets, LAMBDA g : g.inv = i)

\* s3.get_object(Bucket, Key): the service's answer.
GetObjectResult(b, k) ==
    IF s3.denied THEN "AccessDenied"
    ELSE IF b # s3.bucket \/ k # s3.key THEN "NoSuchKey"
    ELSE "ok"

(***************************************************************************)
(* lambda_handler, one action per step of an invocation i.                 *)
(***************************************************************************)
Raise(i, e) ==
    /\ pc' = [pc EXCEPT ![i] = "error"]
    /\ err' = [err EXCEPT ![i] = e]

Log(i, kind, n) == logs' = [logs EXCEPT ![i] = Append(@, [kind |-> kind, n |-> n])]

\* Lines 7-12: read bucket and key from the first record, print both.
ExtractEvent(i) ==
    /\ pc[i] = "extract"
    /\ IF EventError(event) # ""
       THEN /\ Raise(i, EventError(event))
            /\ UNCHANGED <<bucket, key, logs>>
       ELSE /\ bucket' = [bucket EXCEPT ![i] = event.Records[1].bucket]
            /\ key' = [key EXCEPT ![i] = event.Records[1].key]
            /\ logs' = [logs EXCEPT ![i] = @ \o <<[kind |-> "bucket", n |-> 0],
                                                  [kind |-> "key", n |-> 0]>>]
            /\ pc' = [pc EXCEPT ![i] = "decode"]
            /\ err' = err
    /\ UNCHANGED <<event, s3, content, reader, loopVar, row, gets, puts>>

\* Line 15: key = urllib.parse.unquote_plus(key)
DecodeKey(i) ==
    /\ pc[i] = "decode"
    /\ key' = [key EXCEPT ![i] = UnquotePlus(key[i])]
    /\ pc' = [pc EXCEPT ![i] = "get"]
    /\ UNCHANGED <<event, s3, bucket, content, reader, loopVar, row, err,
                   gets, puts, logs>>

\* Lines 17-18, the request: s3.get_object(Bucket=bucket, Key=key) is sent
\* and the invocation waits for the answer.
GetObject(i) ==
    /\ pc[i] = "get"
    /\ gets' = Append(gets, [inv |-> i, bucket |-> bucket[i], key |-> key[i]])
    /\ pc' = [pc EXCEPT ![i] = "getting"]
    /\ UNCHANGED <<event, s3, bucket, key, content, reader, loopVar, row, err,
                   puts, logs>>

\* Line 18, the answer: get_object returns the response, or raises and ends
\* the invocation.
GetObjectReturn(i) ==
    /\ pc[i] = "getting"
    /\ IF GetObjectResult(bucket[i], key[i]) = "ok"
       THEN /\ pc' = [pc EXCEPT ![i] = "read"]
            /\ err' = err
       ELSE Raise(i, GetObjectResult(bucket[i], key[i]))
    /\ UNCHANGED <<event, s3, bucket, key, content, reader, loopVar, row,
                   gets, puts, logs>>

\* Lines 19-24: response['Body'].read().decode('utf-8'), the DictReader over
\* the text, the table handle.
ReadBody(i) ==
    /\ pc[i] = "read"
    /\ IF s3.body.utf8
       THEN /\ content' = [content EXCEPT ![i] =
                              [lines |-> s3.body.lines, raises |-> s3.body.csvError]]
            /\ reader' = [reader EXCEPT ![i] = 0]
            /\ pc' = [pc EXCEPT ![i] = "next"]
            /\ err' = err
       ELSE /\ Raise(i, "UnicodeDecodeError")
            /\ UNCHANGED <<content, reader>>
    /\ UNCHANGED <<event, s3, bucket, key, loopVar, row, gets, puts, logs>>

\* enumerate(reader) without start=1.
EnumerateFromZero(v) == IF v = <<>> THEN 0 ELSE v[1] + 1

\* Line 26: the index enumerate(reader, start=1) gives the next row, v being
\* the loop variable so far.
EnumerateNext(v) == IF v = <<>> THEN 1 ELSE v[1] + 1

\* Lines 26-28: enumerate(reader, start=1) yields the next row, ends the
\* loop, or lets the csv.Error of the underlying reader through (raised
\* while the header, a skipped blank row or the next row is read); the first
\* PrintLimit rows are printed.
NextRow(i) ==
    /\ pc[i] = "next"
    /\ LET lines == content[i].lines
           j == NextLine(lines, AfterHeader(lines, reader[i]))
           n == EnumerateNext(loopVar[i])
       IN  IF j = 0 /\ content[i].raises
           THEN /\ reader' = [reader EXCEPT ![i] = Len(lines)]
                /\ Raise(i, "csv.Error")
                /\ UNCHANGED <<loopVar, row, logs>>
           ELSE IF j = 0
           THEN /\ reader' = [reader EXCEPT ![i] = Len(lines)]
                /\ pc' = [pc EXCEPT ![i] = "report"]
                /\ UNCHANGED <<loopVar, row, logs, err>>
           ELSE /\ reader' = [reader EXCEPT ![i] = j]
                /\ loopVar' = [loopVar EXCEPT ![i] = <<n>>]
                /\ row' = [row EXCEPT ![i] = DictRow(Fieldnames(lines), lines[j])]
                /\ IF n <= PrintLimit THEN Log(i, "row", n) ELSE logs' = logs
                /\ pc' = [pc EXCEPT ![i] = "item"]
                /\ err' = err
    /\ UNCHANGED <<event, s3, bucket, key, content, gets, puts>>

\* A writer that skips an item some invocation has already put.
PutItemDeduplicating(i) ==
    /\ pc[i] = "item"
    /\ IF MissingKey(row[i]) # 0
       THEN /\ Raise(i, "KeyError")
            /\ puts' = puts
       ELSE IF \E j \in DOMAIN puts : puts[j].item = ItemOf(row[i])
       THEN /\ puts' = puts
            /\ pc' = [pc EXCEPT ![i] = "next"]
            /\ err' = err
       ELSE /\ puts' = Append(puts, [inv |-> i, item |-> ItemOf(row[i]),
                                     status |-> "inflight"])
            /\ pc' = [pc EXCEPT ![i] = "putting"]
            /\ err' = err
    /\ UNCHANGED <<event, s3, bucket, key, content, reader, loopVar, row,
                   gets, logs>>

\* A writer that does not wait for put_item to return.
PutItemNotWaiting(i) ==
    /\ pc[i] = "item"
    /\ IF MissingKey(row[i]) # 0
       THEN /\ Raise(i, "KeyError")
            /\ puts' = puts
       ELSE /\ puts' = Append(puts, [inv |-> i, item |-> ItemOf(row[i]),
                                     status |-> "inflight"])
            /\ pc' = [pc EXCEPT ![i] = "next"]
            /\ err' = err
    /\ UNCHANGED <<event, s3, bucket, key, content, reader, loopVar, row,
                   gets, logs>>

\* Lines 31-35, up to the request: build the Item and issue table.put_item.
PutItem(i) ==
    /\ pc[i] = "item"
    /\ IF MissingKey(row[i]) # 0
       THEN /\ Raise(i, "KeyError")
            /\ puts' = puts
       ELSE /\ puts' = Append(puts, [inv |-> i, item |-> ItemOf(row[i]),
                                     status |-> "inflight"])
            /\ pc' = [pc EXCEPT ![i] = "putting"]
            /\ err' = err
    /\ UNCHANGED <<event, s3, bucket, key, content, reader, loopVar, row,
                   gets, logs>>

\* A writer that catches a failed put_item and goes on with the next row.
PutItemReturnCaught(i) ==
    /\ pc[i] = "putting"
    /\ \E j \in DOMAIN puts :
         /\ puts[j].inv = i
         /\ puts[j].status = "inflight"
         /\ \/ puts' = [puts EXCEPT ![j].status = "ok"]
            \/ puts' = [puts EXCEPT ![j].status = "failed"]
         /\ pc' = [pc EXCEPT ![i] = "next"]
         /\ err' = err
    /\ UNCHANGED <<event, s3, bucket, key, content, reader, loopVar, row,
                   gets, logs>>

\* Lines 31-35, the answer: put_item returns, or raises and ends the
\* invocation.
PutItemReturn(i) ==
    /\ pc[i] = "putting"
    /\ \E j \in DOMAIN puts :
         /\ puts[j].inv = i
         /\ puts[j].status = "inflight"
         /\ \/ /\ puts' = [puts EXCEPT ![j].status = "ok"]
               /\ pc' = [pc EXCEPT ![i] = "next"]
               /\ err' = err
            \/ /\ puts' = [puts EXCEPT ![j].status = "failed"]
               /\ Raise(i, "ClientError")
    /\ UNCHANGED <<event, s3, bucket, key, content, reader, loopVar, row,
                   gets, logs>>

\* Line 37: print(f"Processed {i} rows ..."); `i` is unbound when the loop
\* body never ran.
Report(i) ==
    /\ pc[i] = "report"
    /\ IF loopVar[i] = <<>>
       THEN /\ Raise(i, "UnboundLocalError")
            /\ logs' = logs
       ELSE /\ Log(i, "processed", loopVar[i][1])
            /\ pc' = [pc EXCEPT ![i] = "done"]
            /\ err' = err
    /\ UNCHANGED <<event, s3, bucket, key, content, reader, loopVar, row,
                   gets, puts>>

Next ==
    \E i \in Invocations :
        \/ ExtractEvent(i)
        \/ DecodeKey(i)
        \/ GetObject(i)
        \/ GetObjectReturn(i)
        \/ ReadBody(i)
        \/ NextRow(i)
        \/ PutItem(i)
        \/ PutItemReturn(i)
        \/ Report(i)

(***************************************************************************)
(* Inputs: events, stored objects, CSV texts.                              *)
(***************************************************************************)
BucketName == "dubegrid-data"

\* The object's literal key and the key as an S3 notification carries it.
StoredKey ==
    Codes(<<"f", "o", "l", "d", "e", "r", "=", "d", "a", "t", "a", "/",
            "f", "i", "l", "e", ".", "c", "s", "v">>)
EscapedKey ==
    Codes(<<"f", "o", "l", "d", "e", "r", "%", "3", "D", "d", "a", "t", "a", "/",
            "f", "i", "l", "e", ".", "c", "s", "v">>)
\* The key of an object literally named folder%3Ddata/file.csv.
TwiceEscapedKey ==
    Codes(<<"f", "o", "l", "d", "e", "r", "%", "2", "5", "3", "D", "d", "a", "t",
            "a", "/", "f", "i", "l", "e", ".", "c", "s", "v">>)

Record(k) == [hasBucket |-> TRUE, bucket |-> BucketName, hasKey |-> TRUE, key |-> k]

GoodEvent(k) == [hasRecords |-> TRUE, Records |-> <<Record(k)>>]

MalformedEvents ==
    { [hasRecords |-> FALSE, Records |-> <<>>],
      [hasRecords |-> TRUE, Records |-> <<>>],
      [hasRecords |-> TRUE, Records |-> <<[Record(EscapedKey) EXCEPT !.hasBucket = FALSE]>>],
      [hasRecords |-> TRUE, Records |-> <<[Record(EscapedKey) EXCEPT !.hasKey = FALSE]>>] }

SampleEvents ==
    MalformedEvents \cup
    { GoodEvent(EscapedKey), GoodEvent(StoredKey), GoodEvent(TwiceEscapedKey),
      [hasRecords |-> TRUE, Records |-> <<Record(EscapedKey), Record(StoredKey)>>] }

ColNames == {"asset_id", "timestamp", "value", "site"}

\* Header lines that name a column twice.
RepeatingHeaders ==
    { <<"value", "asset_id", "timestamp", "value">>,
      <<"asset_id", "asset_id", "timestamp", "value">>,
      <<"asset_id", "timestamp", "value", "timestamp">> }

\* Header lines: up to MaxCols column names, none twice (<<>>: a blank line),
\* and the repeating ones.
Headers ==
    UNION { { h \in [1..n -> ColNames] : \A a, b \in 1..n : h[a] = h[b] => a = b }
            : n \in 0..MaxCols }
    \cup RepeatingHeaders

\* The text of the cells of the data lines.
Data ==
    << <<"a1", "100", "5", "north", "x">>,
       <<"a2", "200", "7", "south", "y">>,
       <<"a1", "100", "9", "north", "z">>,
       <<"a3", "300", "", "east", "w">> >>

CellText(r, c) == IF r <= Len(Data) /\ c <= Len(Data[r]) THEN Data[r][c] ELSE "-"

\* Up to MaxRows data lines, line r holding the first cells of Data[r], up to
\* MaxCells of them (none: a blank line).
RowSets ==
    UNION { { [r \in 1..m |-> [c \in 1..lens[r] |-> CellText(r, c)]]
              : lens \in [1..m -> 0..MaxCells] }
            : m \in 0..MaxRows }

CsvTexts == {<<>>} \cup { <<h>> \o rows : h \in Headers, rows \in RowSets }

\* Object bodies: bytes that are not UTF-8, and every text, whole or cut
\* short by something csv.reader raises csv.Error on.
Bodies == {[utf8 |-> FALSE, lines |-> <<>>, csvError |-> FALSE]}
          \cup { [utf8 |-> TRUE, lines |-> t, csvError |-> e]
                 : t \in CsvTexts, e \in BOOLEAN }

\* Scenario 2 of the specification.
SampleBody ==
    [utf8 |-> TRUE, csvError |-> FALSE,
     lines |-> << <<"asset_id", "timestamp", "value">>,
                  <<"a1", "100", "5">>, <<"a2", "200", "7">> >>]

\* Texts whose header names the three required columns and whose every data
\* line has a cell for every header column.
ValidHeaders == { <<"asset_id", "timestamp", "value">>,
                  <<"value", "site", "asset_id", "timestamp">> }
ValidBodies ==
    { b \in Bodies :
        /\ b.utf8 /\ ~b.csvError /\ b.lines # <<>> /\ b.lines[1] \in ValidHeaders
        /\ \A r \in 2..Len(b.lines) : Len(b.lines[r]) >= Len(b.lines[1]) }

\* Event keys over a small alphabet, for the decoding step.
KeyAlphabet == {Ord("%"), Ord("2"), Ord("5"), Ord("B"), Ord("+")}
KeySeqs == UNION { [1..n -> KeyAlphabet] : n \in 1..MaxKeyLen }
PlusKey == Codes(<<"+", " ">>)

Store(k, b, d) == [bucket |-> BucketName, key |-> k, body |-> b, denied |-> d]

InitLocals(started) ==
    /\ pc = [i \in Invocations |-> IF i \in started THEN "extract" ELSE "absent"]
    /\ bucket = [i \in Invocations |-> ""]
    /\ key = [i \in Invocations |-> <<>>]
    /\ content = [i \in Invocations |-> [lines |-> <<>>, raises |-> FALSE]]
    /\ reader = [i \in Invocations |-> 0]
    /\ loopVar = [i \in Invocations |-> <<>>]
    /\ row = [i \in Invocations |-> NoRow]
    /\ err = [i \in Invocations |-> ""]
    /\ gets = <<>>
    /\ puts = <<>>
    /\ logs = [i \in Invocations |-> <<>>]

\* One invocation; every CSV text behind a well-formed event, and every
\* sample event and service answer in front of the sample text.
Init ==
    /\ \/ /\ event = GoodEvent(EscapedKey)
          /\ \E b \in Bodies : s3 = Store(StoredKey, b, FALSE)
       \/ /\ event \in SampleEvents
          /\ \E d \in BOOLEAN : s3 = Store(StoredKey, SampleBody, d)
    /\ InitLocals({1})

Spec == Init /\ [][Next]_vars

\* One invocation; every event key over KeyAlphabet.
InitKey ==
    /\ \E k \in KeySeqs : event = GoodEvent(k)
    /\ s3 = Store(PlusKey, SampleBody, FALSE)
    /\ InitLocals({1})

SpecKey == InitKey /\ [][Next]_vars

\* The same event delivered twice, the two invocations interleaved at will.
InitTwice ==
    /\ event = GoodEvent(EscapedKey)
    /\ \E b \in ValidBodies : s3 = Store(StoredKey, b, FALSE)
    /\ InitLocals(Invocations)

SpecTwice == InitTwice /\ [][Next]_vars

(***************************************************************************)
(* Vocabulary of the properties, read off the stored object itself.        *)
(***************************************************************************)
\* The header line and the data rows of the stored CSV: the lines after the
\* first that are not blank, in file order (of a text csv.reader raises
\* csv.Error on, the rows read before that).
CsvHeader == IF s3.body.lines = <<>> THEN <<>> ELSE s3.body.lines[1]
DataRows ==
    IF s3.body.lines = <<>> THEN <<>>
    ELSE SelectSeq(Tail(s3.body.lines), LAMBDA l : l # <<>>)

\* The column of the header named a (the last one so named), 0 if none.
ColumnOf(a) ==
    IF \E c \in DOMAIN CsvHeader : CsvHeader[c] = a
    THEN CHOOSE c \in DOMAIN CsvHeader :
            /\ CsvHeader[c] = a
            /\ \A d \in DOMAIN CsvHeader : CsvHeader[d] = a => d <= c
    ELSE 0

\* Data row k has a cell in a column named a.
HasCell(k, a) == ColumnOf(a) # 0 /\ ColumnOf(a) <= Len(DataRows[k])

\* The item carries the values of data row k: every required column the row
\* has a cell for is the item's attribute of that name.
CarriesRow(item, k) ==
    \A a \in Range(Required) : HasCell(k, a) => item[a] = Str(DataRows[k][ColumnOf(a)])

\* Invocation i left the row loop by exhausting the rows (no row failed).
LoopCompleted(i) ==
    \/ pc[i] \in {"report", "done"}
    \/ pc[i] = "error" /\ err[i] = "UnboundLocalError"

Processed(i) == SelectSeq(logs[i], LAMBDA e : e.kind = "processed")

(***************************************************************************)
(* C1.  When no row fails, one invocation issues exactly R put_item calls  *)
(* for a CSV of R data rows (R >= 0), the k-th carrying the values of the  *)
(* k-th data row: source order, none skipped, none repeated.               *)
(***************************************************************************)
C1_OneWritePerRowInOrder ==
    \A i \in Invocations :
        LoopCompleted(i) =>
            /\ Len(PutsOf(i)) = Len(DataRows)
            /\ \A k \in 1..Len(DataRows) :
                  /\ PutsOf(i)[k].status = "ok"
                  /\ CarriesRow(PutsOf(i)[k].item, k)

C1_Witness ==
    /\ pc[1] = "done"
    /\ Len(DataRows) >= 2
    /\ Len(PutsOf(1)) = Len(DataRows)
    /\ PutsOf(1)[1].item # PutsOf(1)[2].item

(***************************************************************************)
(* C2.  A CSV of a header line and no data row: zero put_item calls, then  *)
(* a logged count of 0, and the invocation ends without an error.          *)
(***************************************************************************)
HeaderOnly ==
    s3.body.utf8 /\ ~s3.body.csvError /\ s3.body.lines # <<>> /\ DataRows = <<>>

\* Invocation i has asked for the stored object, which the service gives.
Fetched(i) ==
    /\ GetsOf(i) # <<>>
    /\ ~s3.denied
    /\ GetsOf(i)[1].bucket = s3.bucket
    /\ GetsOf(i)[1].key = s3.key

C2_HeaderOnlyLogsZero ==
    \A i \in Invocations :
        (HeaderOnly /\ Fetched(i) /\ pc[i] \in {"done", "error"}) =>
            /\ PutsOf(i) = <<>>
            /\ pc[i] = "done"
            /\ Processed(i) = <<[kind |-> "processed", n |-> 0]>>

(***************************************************************************)
(* C7.  Whenever the final "Processed N rows" line is printed, N is the    *)
(* number of data rows iterated, which is the number of put_item calls of  *)
(* that invocation.                                                        *)
(***************************************************************************)
C7_CountIsRowsAndWrites ==
    \A i \in Invocations :
        \A e \in Range(Processed(i)) :
            /\ e.n = Len(DataRows)
            /\ e.n = Len(PutsOf(i))
            /\ Len(Processed(i)) = 1

C7_Witness ==
    /\ Processed(1) # <<>>
    /\ Processed(1)[1].n = 2
    /\ Len(PutsOf(1)) = 2

(***************************************************************************)
(* C10.  In every state of an invocation the rows for which put_item has   *)
(* been issued are a prefix of the data rows; the write of row N+1 is not  *)
(* started before the write of row N has completed, and at most one write  *)
(* is in progress.                                                         *)
(***************************************************************************)
C10_SequentialPrefix ==
    \A i \in Invocations :
        /\ Len(PutsOf(i)) <= Len(DataRows)
        /\ \A k \in 1..Len(PutsOf(i)) :
              /\ CarriesRow(PutsOf(i)[k].item, k)
              /\ k < Len(PutsOf(i)) => PutsOf(i)[k].status = "ok"
        /\ Cardinality({k \in 1..Len(PutsOf(i)) : PutsOf(i)[k].status = "inflight"}) <= 1

C10_Witness ==
    /\ Len(PutsOf(1)) = 2
    /\ PutsOf(1)[1].status = "ok"
    /\ PutsOf(1)[2].status = "inflight"
    /\ PutsOf(1)[1].item # PutsOf(1)[2].item

(***************************************************************************)
(* C3.  For an event whose key is percent-escaped, the key passed to       *)
(* get_object holds no %XX escape sequence and no "+" standing for a       *)
(* space.                                                                  *)
(***************************************************************************)
EventKey == event.Records[1].key

\* Every "%" of k starts an escape: two hex digits follow it.
WellEscaped(k) ==
    \A j \in DOMAIN k : k[j] = 37 => j + 2 <= Len(k) /\ IsHex(k[j+1]) /\ IsHex(k[j+2])

\* The places of k where the escape of byte b starts.
EscapesOf(k, b) ==
    { j \in DOMAIN k : /\ k[j] = 37 /\ j + 2 <= Len(k)
                       /\ IsHex(k[j+1]) /\ IsHex(k[j+2])
                       /\ 16 * HexVal(k[j+1]) + HexVal(k[j+2]) = b }

HasEscape(k) == \E b \in 0..255 : EscapesOf(k, b) # {}

Count(k, c) == Cardinality({j \in DOMAIN k : k[j] = c})

\* C3 as stated: in the key passed to get_object no escape sequence is
\* left, and no "+" other than an escaped one (%2B) written out.
C3_NoEscapeLeft ==
    \A j \in DOMAIN gets :
        WellEscaped(EventKey) =>
            /\ ~HasEscape(gets[j].key)
            /\ Count(gets[j].key, 43) = Cardinality(EscapesOf(EventKey, 43))

\* C3 as amended: the fetched key has a "%" exactly where the event key had the
\* escape %25 and a "+" exactly where it had %2B; so an escape sequence can
\* be left only behind an escaped percent sign, and no "+" stands for a
\* space.
C3_OnlyEscapedPercentLeft ==
    \A j \in DOMAIN gets :
        WellEscaped(EventKey) =>
            /\ Count(gets[j].key, 37) = Cardinality(EscapesOf(EventKey, 37))
            /\ Count(gets[j].key, 43) = Cardinality(EscapesOf(EventKey, 43))
            /\ Count(EventKey, 43) > 0 => Count(gets[j].key, 32) >= Count(EventKey, 43)

C3_Witness ==
    /\ gets # <<>>
    /\ WellEscaped(EventKey)
    /\ EscapesOf(EventKey, 43) # {}
    /\ Count(EventKey, 43) > 0
    /\ gets[1].key # EventKey
    /\ Count(gets[1].key, 43) = 1

(***************************************************************************)
(* C4.  Every written item has exactly the attributes asset_id, timestamp  *)
(* and value, each the cell of the column of that name in the row being    *)
(* processed; nothing of any other column is in it.                        *)
(***************************************************************************)
C4_ItemIsTheThreeCells ==
    \A i \in Invocations :
        \A k \in 1..Len(PutsOf(i)) :
            /\ DOMAIN PutsOf(i)[k].item = Range(Required)
            /\ k <= Len(DataRows)
            /\ \A a \in Range(Required) :
                  /\ HasCell(k, a)
                  /\ PutsOf(i)[k].item[a] = Str(DataRows[k][ColumnOf(a)])

(***************************************************************************)
(* C5.  If processing of data row k fails (a missing required column or a  *)
(* failed put_item), the invocation ends in error, the items of rows       *)
(* 1..k-1 stay written, no put_item is ever issued for a later row and no  *)
(* final count is logged.                                                  *)
(***************************************************************************)
\* Invocation i ended on a data row: a lookup in the row or its put_item
\* failed, or the row could not be read (csv.Error).
RowFailed(i) ==
    /\ pc[i] = "error"
    /\ \/ err[i] = "csv.Error"
       \/ err[i] \in {"KeyError", "ClientError"} /\ loopVar[i] # <<>>

\* The row it ended on: the one being processed, or the one being read.
FailedRow(i) ==
    IF err[i] = "csv.Error"
    THEN (IF loopVar[i] = <<>> THEN 1 ELSE loopVar[i][1] + 1)
    ELSE loopVar[i][1]

C5_State ==
    \A i \in Invocations :
        RowFailed(i) =>
            LET k == FailedRow(i) IN
            /\ Len(PutsOf(i)) = (IF err[i] = "ClientError" THEN k ELSE k - 1)
            /\ \A j \in 1..(k - 1) :
                  /\ PutsOf(i)[j].status = "ok"
                  /\ CarriesRow(PutsOf(i)[j].item, j)
            /\ Len(PutsOf(i)) = k => PutsOf(i)[k].status = "failed"
            /\ Processed(i) = <<>>

C5_Step ==
    \A i \in Invocations :
        \* a row without a required column ends the invocation, unwritten
        /\ (pc[i] = "item" /\ pc'[i] # "item" /\ \E a \in Range(Required) : ColumnOf(a) = 0)
              => pc'[i] = "error" /\ puts' = puts
        \* so does a put_item that fails
        /\ (\E j \in DOMAIN puts : /\ puts[j].inv = i /\ puts[j].status = "inflight"
                                   /\ puts'[j].status = "failed")
              => pc'[i] = "error"
        \* and the error is final: nothing is written, undone or logged after it
        /\ pc[i] = "error" =>
              /\ pc'[i] = "error"
              /\ Len(puts') = Len(puts)
              /\ \A j \in DOMAIN puts : puts[j].inv = i => puts'[j] = puts[j]
              /\ logs'[i] = logs[i]

\* C5: the state a failed row leaves behind, and every step around it.
C5_RowFailureAborts == [](C5_State) /\ [][C5_Step]_vars

C5_Witness ==
    /\ pc[1] = "error"
    /\ err[1] = "ClientError"
    /\ loopVar[1] = <<1>>
    /\ Len(DataRows) = 2
    /\ Len(PutsOf(1)) = 1

(***************************************************************************)
(* C6.  A data row lacking one of asset_id, timestamp, value (the header   *)
(* does not name the column, or the line is shorter than the header and    *)
(* has no cell for it) fails with a missing-column error and no put_item   *)
(* is issued for it.                                                       *)
(***************************************************************************)
C6_IncompleteRowNotWritten ==
    \A i \in Invocations :
        \A k \in 1..Len(DataRows) :
            (\E a \in Range(Required) : ~HasCell(k, a)) =>
                /\ Len(PutsOf(i)) < k
                /\ (loopVar[i] = <<k>> /\ pc[i] # "item")
                      => pc[i] = "error" /\ err[i] = "KeyError"

(***************************************************************************)
(* C8.  The same event processed twice, one invocation after the other or  *)
(* interleaved, over R valid rows: 2R put_item calls, two for each row,    *)
(* nothing suppressed because the other invocation wrote the row, each     *)
(* invocation's own writes in source order.                                *)
(***************************************************************************)
C8_TwiceWritesEveryRowTwice ==
    (\A i \in Invocations : LoopCompleted(i)) =>
        /\ Len(puts) = 2 * Len(DataRows)
        /\ \A i \in Invocations :
              /\ Len(PutsOf(i)) = Len(DataRows)
              /\ \A k \in 1..Len(DataRows) :
                    /\ PutsOf(i)[k].status = "ok"
                    /\ \A a \in Range(Required) :
                          PutsOf(i)[k].item[a] = Str(DataRows[k][ColumnOf(a)])

C8_Witness ==
    /\ \A i \in Invocations : pc[i] = "done"
    /\ Len(DataRows) = 2
    /\ Len(puts) = 4
    /\ puts[1].inv # puts[2].inv
    /\ puts[1].item = puts[2].item

(***************************************************************************)
(* C9.  A failure before the row loop (no record, no bucket or key field,  *)
(* get_object refused or not finding the object, bytes that are not        *)
(* UTF-8) ends the invocation in error with no put_item issued, and the    *)
(* failed step is not tried again; a malformed event causes no get_object  *)
(* call either.                                                            *)
(***************************************************************************)
Malformed ==
    \/ ~event.hasRecords
    \/ event.Records = <<>>
    \/ ~event.Records[1].hasBucket
    \/ ~event.Records[1].hasKey

C9_EarlyFailureWritesNothing ==
    \A i \in Invocations :
        /\ Len(GetsOf(i)) <= 1
        /\ Malformed =>
              /\ GetsOf(i) = <<>> /\ PutsOf(i) = <<>> /\ logs[i] = <<>>
              /\ pc[i] \in {"absent", "extract", "error"}
        \* a get_object that fails: once answered the invocation is over
        /\ (GetsOf(i) # <<>> /\ ~Fetched(i)) =>
              /\ pc[i] \in {"getting", "error"}
              /\ pc[i] = "error" => err[i] \in {"AccessDenied", "NoSuchKey"}
              /\ PutsOf(i) = <<>> /\ Processed(i) = <<>>
        \* bytes that are not UTF-8: the invocation gets no further than line 19
        /\ (Fetched(i) /\ ~s3.body.utf8) =>
              /\ pc[i] \in {"getting", "read", "error"}
              /\ pc[i] = "error" => err[i] = "UnicodeDecodeError"
              /\ PutsOf(i) = <<>> /\ Processed(i) = <<>>

C9_Witness ==
    /\ pc[1] = "error"
    /\ err[1] = "NoSuchKey"
    /\ Len(GetsOf(1)) = 1
    /\ puts = <<>>

====
